---- MODULE Spec2Model ----
(***************************************************************************)
(* A model of the resume / job-description analyser of app.py: the lexicon *)
(* sets, clean_text, check_formatting_rules, generate_optimization_tips    *)
(* and the /analyze handler, one action per numbered step of the handler.  *)
(* Texts are TLA+ strings, read character by character as app.py reads     *)
(* Python strings.                                                         *)
(***************************************************************************)
EXTENDS Integers, Sequences, FiniteSets, TLC

VARIABLES
    lexicon,          \* the module-level sets COMMON_STOP_WORDS, TECH_SKILLS, SOFT_SKILLS
    pending,          \* request bodies that have not reached the handler yet
    pc,               \* per request thread: the step of analyze() it is at
    resume_text, jd_text,
    resume_words, jd_words, resume_set, jd_counter,
    target_keywords, found, missing, score,
    format_checks, tips, response

vars == <<lexicon, pending, pc, resume_text, jd_text, resume_words, jd_words,
          resume_set, jd_counter, target_keywords, found, missing, score,
          format_checks, tips, response>>

locals == <<resume_words, jd_words, resume_set, jd_counter, target_keywords,
            found, missing, score, format_checks, tips>>

----------------------------------------------------------------------------
(* Characters and strings *)

Char(s, i) == SubSeq(s, i, i)

CharsOf(s) == {Char(s, i) : i \in 1..Len(s)}

UpperLetters == "ABCDEFGHIJKLMNOPQRSTUVWXYZ"

LowerLetters == "abcdefghijklmnopqrstuvwxyz"

Digits == "0123456789"

UpperSet == CharsOf(UpperLetters)

LowerSet == CharsOf(LowerLetters)

DigitSet == CharsOf(Digits)

SpaceSet == {" ", "\t", "\n", "\r", "\f"}

WordSet == LowerSet \cup UpperSet \cup DigitSet \cup {"_"}

ToLower ==
    [c \in UpperSet |->
        Char(LowerLetters, CHOOSE i \in 1..Len(UpperLetters) : Char(UpperLetters, i) = c)]

\* str.lower() on one character (ASCII letters; every other character of the
\* model's texts is caseless)
LowerChar(c) == IF c \in UpperSet THEN ToLower[c] ELSE c

RECURSIVE Lower(_)
\* text.lower(), character by character (halving keeps the evaluation shallow)
Lower(s) ==
    IF Len(s) <= 1 THEN LowerChar(s)
    ELSE Lower(SubSeq(s, 1, Len(s) \div 2)) \o Lower(SubSeq(s, Len(s) \div 2 + 1, Len(s)))

\* the regex classes \s, \d and \w
IsSpace(c) == c \in SpaceSet

IsDigit(c) == c \in DigitSet

IsWordChar(c) == c \in WordSet

\* k in text, for two Python strings
IsSubstring(k, text) ==
    \E i \in 1..(Len(text) - Len(k) + 1) : SubSeq(text, i, i + Len(k) - 1) = k

Range(seq) == {seq[i] : i \in 1..Len(seq)}

----------------------------------------------------------------------------
(* Configuration and data lists *)

COMMON_STOP_WORDS ==
    {"and", "the", "for", "with", "you", "that", "are", "this", "from", "will",
     "have", "your", "our", "can", "all", "but", "not", "of", "in", "to", "is",
     "a", "an", "or", "as", "be", "by", "on", "at", "it"}

TECH_SKILLS ==
    {"javascript", "python", "java", "react", "angular", "vue", "html", "css",
     "typescript", "sql", "aws", "docker", "kubernetes", "git", "jira", "agile",
     "scrum", "communication", "leadership", "redux", "node", "express",
     "mongodb", "ci/cd", "frontend", "backend", "fullstack", "api", "rest",
     "graphql", "machine learning", "data analysis", "go", "rust", "c++", "c#",
     "azure", "gcp", "terraform", "jenkins", "linux", "bash", "design patterns"}

SOFT_SKILLS ==
    {"communication", "leadership", "teamwork", "agile", "scrum",
     "collaboration", "problem-solving", "adaptability", "time management",
     "critical thinking", "creativity"}

----------------------------------------------------------------------------
(* clean_text *)

\* [a-z0-9\s]
KeptSet == LowerSet \cup DigitSet \cup SpaceSet

\* mutant: re.sub(..., '', text), the special characters deleted, not spaced
SubSpecialDeleted(c) == IF c \in KeptSet THEN c ELSE ""

\* re.sub(r'[^a-z0-9\s]', ' ', text), on one character
SubSpecial(c) == IF c \in KeptSet THEN c ELSE " "

RECURSIVE StripSpecial(_)
StripSpecial(s) ==
    IF Len(s) = 0 THEN ""
    ELSE IF Len(s) = 1 THEN SubSpecial(s)
    ELSE StripSpecial(SubSeq(s, 1, Len(s) \div 2))
         \o StripSpecial(SubSeq(s, Len(s) \div 2 + 1, Len(s)))

\* the last character of the run of non-whitespace that starts at i
RunEnd(s, i) ==
    CHOOSE j \in i..Len(s) :
        /\ j = Len(s) \/ IsSpace(Char(s, j + 1))
        /\ \A k \in i..(j - 1) : ~IsSpace(Char(s, k + 1))

RECURSIVE RunsIn(_, _, _)
\* the maximal runs of non-whitespace that start in s[lo..hi], in order
RunsIn(s, lo, hi) ==
    IF lo > hi THEN <<>>
    ELSE IF lo = hi
    THEN (IF ~IsSpace(Char(s, lo)) /\ (lo = 1 \/ IsSpace(Char(s, lo - 1)))
          THEN <<SubSeq(s, lo, RunEnd(s, lo))>> ELSE <<>>)
    ELSE RunsIn(s, lo, (lo + hi) \div 2) \o RunsIn(s, (lo + hi) \div 2 + 1, hi)

\* text.split()
Split(s) == RunsIn(s, 1, Len(s))

MinWordLen == 2

\* [w for w in text.split() if len(w) > 2]
LongWords(words) ==
    LET long(w) == Len(w) > MinWordLen
    IN  SelectSeq(words, long)

clean_text(text) == LongWords(Split(StripSpecial(Lower(text))))

----------------------------------------------------------------------------
(* Python float arithmetic (IEEE-754 binary64, round to nearest, ties to    *)
(* even), as far as the score expression int((a / b) * 100) needs it.  A    *)
(* positive float is [m |-> its 53 significand bits, most significant       *)
(* first, e |-> the exponent of the last bit]: its value is m * 2^e.        *)

MantissaBits == 53

RECURSIVE BitsToNat(_)
\* the number a bit string (most significant first) writes; short strings only
BitsToNat(bits) ==
    IF bits = <<>> THEN 0
    ELSE 2 * BitsToNat(SubSeq(bits, 1, Len(bits) - 1)) + bits[Len(bits)]

\* bit i (0 the least significant) of a bit string, 0 beyond its length
BitAt(bits, i) == IF i < Len(bits) THEN bits[Len(bits) - i] ELSE 0

StripZeros(bits) ==
    LET ones == {i \in 1..Len(bits) : bits[i] = 1}
    IN  IF ones = {} THEN <<>>
        ELSE SubSeq(bits, CHOOSE i \in ones : \A j \in ones : i <= j, Len(bits))

\* bits + 1
Increment(bits) ==
    LET zeros == {i \in 1..Len(bits) : bits[i] = 0}
        z     == CHOOSE i \in zeros : \A j \in zeros : j <= i
    IN  IF zeros = {} THEN <<1>> \o [i \in 1..Len(bits) |-> 0]
        ELSE [i \in 1..Len(bits) |-> IF i < z THEN bits[i] ELSE IF i = z THEN 1 ELSE 0]

LimbBits == 16

\* limb k (0 the least significant) of a bit string: its bits 16k .. 16k+15
LimbAt(bits, k) ==
    BitsToNat([p \in 1..LimbBits |-> BitAt(bits, LimbBits * k + LimbBits - p)])

RECURSIVE MulLimbs(_, _, _, _)
\* bits * n from limb k upward with a carry coming in: the limbs of the product,
\* least significant first
MulLimbs(bits, n, k, carry) ==
    IF LimbBits * k >= Len(bits)
    THEN <<carry>>
    ELSE LET v == LimbAt(bits, k) * n + carry
         IN  <<v % (2 ^ LimbBits)>> \o MulLimbs(bits, n, k + 1, v \div (2 ^ LimbBits))

\* the exact product of a bit string and an int below 2^14
MulBits(bits, n) ==
    LET limbs == MulLimbs(bits, n, 0, 0)
        len   == LimbBits * Len(limbs)
    IN  StripZeros([p \in 1..len |->
            (limbs[(len - p) \div LimbBits + 1] \div (2 ^ ((len - p) % LimbBits))) % 2])

\* the float nearest to bits * 2^e, for a bit string of at least 53 bits that
\* starts with 1: round to nearest, ties to even
RoundToFloat(bits, e) ==
    LET n      == Len(bits)
        d      == n - MantissaBits
        kept   == SubSeq(bits, 1, MantissaBits)
        guard  == IF d >= 1 THEN bits[MantissaBits + 1] ELSE 0
        sticky == \E i \in (MantissaBits + 2)..n : bits[i] = 1
        up     == guard = 1 /\ (sticky \/ kept[MantissaBits] = 1)
        m1     == IF up THEN Increment(kept) ELSE kept
    IN  IF Len(m1) > MantissaBits
        THEN [m |-> SubSeq(m1, 1, MantissaBits), e |-> e + d + 1]
        ELSE [m |-> m1, e |-> e + d]

RECURSIVE LeadShift(_, _)
\* how many binary places a/b lies below 1: the least k with a * 2^k >= b
LeadShift(a, b) == IF a >= b THEN 0 ELSE 1 + LeadShift(2 * a, b)

RECURSIVE Pow2Mod(_, _)
\* 2^j mod b
Pow2Mod(j, b) ==
    IF j = 0 THEN 1 % b
    ELSE LET h == Pow2Mod(j \div 2, b)
         IN  (h * h * (IF j % 2 = 1 THEN 2 ELSE 1)) % b

\* the remainder of the long division r / b after n binary digits
DivRem(r, b, n) == (r * Pow2Mod(n, b)) % b

\* the next n binary digits of r / b, for a remainder r < b
DivDigits(r, b, n) ==
    [j \in 1..n |-> IF 2 * DivRem(r, b, j - 1) >= b THEN 1 ELSE 0]

\* a / b for ints 0 < a <= b: the correctly rounded quotient.  The digits are
\* the leading 1, 52 more, the guard digit, and one digit standing for the rest.
FloatDiv(a, b) ==
    LET k    == LeadShift(a, b)
        r    == a * (2 ^ k) - b
        rest == IF DivRem(r, b, MantissaBits) > 0 THEN 1 ELSE 0
    IN  RoundToFloat(<<1>> \o DivDigits(r, b, MantissaBits) \o <<rest>>,
                     0 - k - MantissaBits - 1)

\* x * n for a float x and a small positive int n (n is exact as a float)
FloatMulInt(x, n) == RoundToFloat(MulBits(x.m, n), x.e)

\* int(x): truncation toward zero, for a positive float below 2^31
FloatToInt(x) ==
    IF MantissaBits + x.e <= 0 THEN 0
    ELSE BitsToNat(SubSeq(x.m, 1, MantissaBits + x.e))

Percent == 100
\* mutant: round() in the place of int()
ScoreRounded(nfound, total_keywords) ==
    IF total_keywords = 0 THEN 0
    ELSE (2 * Percent * nfound + total_keywords) \div (2 * total_keywords)

\* int((len(found) / total_keywords) * 100), or 0 when there is no keyword
ScoreOf(nfound, total_keywords) ==
    IF total_keywords = 0 THEN 0
    ELSE IF nfound = 0 THEN 0
    ELSE FloatToInt(FloatMulInt(FloatDiv(nfound, total_keywords), Percent))

----------------------------------------------------------------------------
(* check_formatting_rules: re.search over the raw text.  A pattern matches  *)
(* somewhere iff some choice of its pieces' extents fits, which is what     *)
(* each operator states.                                                    *)

CharAt(text, i) == IF i >= 1 /\ i <= Len(text) THEN Char(text, i) ELSE ""

AllIn(text, from, to, Class(_)) == \A i \in from..to : Class(CharAt(text, i))

\* \b before position i: exactly one of the characters i-1 and i is a \w
WordBoundary(text, i) == IsWordChar(CharAt(text, i - 1)) # IsWordChar(CharAt(text, i))

\* [\w\.-]
IsEmailChar(c) == IsWordChar(c) \/ c \in {".", "-"}

\* [-.\s]
IsPhoneSep(c) == c \in {"-", "."} \/ IsSpace(c)

MinTld == 2

MaxTld == 4

\* \b[\w\.-]+@[\w\.-]+\.\w{2,4}\b
HasEmail(text) ==
    \E at \in {i \in 1..Len(text) : Char(text, i) = "@"} :
        /\ \E a \in 1..(at - 1) :
              WordBoundary(text, a) /\ AllIn(text, a, at - 1, IsEmailChar)
        /\ \E dot \in (at + 2)..Len(text) :
              /\ Char(text, dot) = "."
              /\ AllIn(text, at + 1, dot - 1, IsEmailChar)
              /\ \E k \in MinTld..MaxTld :
                    /\ dot + k <= Len(text)
                    /\ AllIn(text, dot + 1, dot + k, IsWordChar)
                    /\ WordBoundary(text, dot + k + 1)

AreaDigits == 3

LineDigits == 4

\* \(?\d{3}\)?[-.\s]?\d{3}[-.\s]?\d{4}
HasPhone(text) ==
    \E s \in {i \in 1..Len(text) : Char(text, i) = "(" \/ IsDigit(Char(text, i))} :
        \E open, close, sep1, sep2 \in {0, 1} :
            LET a == s + open
                b == a + AreaDigits + close + sep1
                c == b + AreaDigits + sep2
            IN  /\ open = 1 => Char(text, s) = "("
                /\ AllIn(text, a, a + AreaDigits - 1, IsDigit)
                /\ close = 1 => CharAt(text, a + AreaDigits) = ")"
                /\ sep1 = 1 => IsPhoneSep(CharAt(text, a + AreaDigits + close))
                /\ AllIn(text, b, b + AreaDigits - 1, IsDigit)
                /\ sep2 = 1 => IsPhoneSep(CharAt(text, b + AreaDigits))
                /\ AllIn(text, c, c + LineDigits - 1, IsDigit)

ActionVerbs ==
    {"led", "managed", "developed", "created", "built", "designed", "improved",
     "optimized", "engineered", "architected"}

\* the places where one of the words stands in the text, whatever the case
\* (re.IGNORECASE): <<first, last>> character positions
Occurrences(text, words) ==
    LET low    == Lower(text)
        heads  == {Head(w) : w \in words}
        starts == {i \in 1..Len(low) : Char(low, i) \in heads}
    IN  {<<o[1], o[1] + Len(o[2]) - 1>> : o \in
            {<<j, v>> \in starts \X words :
                j + Len(v) - 1 <= Len(low) /\ SubSeq(low, j, j + Len(v) - 1) = v}}

\* \b(led|managed|...)\b, re.IGNORECASE
HasVerbs(text) ==
    \E o \in Occurrences(text, ActionVerbs) :
        WordBoundary(text, o[1]) /\ WordBoundary(text, o[2] + 1)

MetricWords == {"users", "clients", "percent", "increase", "reduction"}

\* \d+%|\$\d+
HasPercentOrDollar(text) ==
    \E i \in 1..Len(text) :
        \/ IsDigit(Char(text, i)) /\ CharAt(text, i + 1) = "%"
        \/ Char(text, i) = "$" /\ IsDigit(CharAt(text, i + 1))

\* \b\d+\s+(users|clients|percent|increase|reduction), re.IGNORECASE
HasCountedNoun(text) ==
    \E o \in Occurrences(text, MetricWords) :
        \E b \in 1..(o[1] - 2) : \E a \in 1..b :
            /\ AllIn(text, b + 1, o[1] - 1, IsSpace)
            /\ AllIn(text, a, b, IsDigit)
            /\ WordBoundary(text, a)

HasMetrics(text) == HasPercentOrDollar(text) \/ HasCountedNoun(text)

Check(label, pass, msgFail) == [label |-> label, pass |-> pass, msgFail |-> msgFail]
\* mutant: the typo check fails a text that has no action verb
check_formatting_rules_typos(text) ==
    << Check("Contact Email", HasEmail(text), "No email detected"),
       Check("Phone Number", HasPhone(text), "No phone number"),
       Check("Action Verbs", HasVerbs(text), "Add verbs like 'Managed'"),
       Check("Metrics/Numbers", HasMetrics(text),
             "Include measurable achievements (e.g., '20%')"),
       Check("Consistent Formatting", TRUE, "Ensure uniform font and style"),
       Check("No Typos", HasVerbs(text), "Proofread for spelling errors") >>

check_formatting_rules(text) ==
    << Check("Contact Email", HasEmail(text), "No email detected"),
       Check("Phone Number", HasPhone(text), "No phone number"),
       Check("Action Verbs", HasVerbs(text), "Add verbs like 'Managed'"),
       Check("Metrics/Numbers", HasMetrics(text),
             "Include measurable achievements (e.g., '20%')"),
       Check("Consistent Formatting", TRUE, "Ensure uniform font and style"),
       Check("No Typos", TRUE, "Proofread for spelling errors") >>

----------------------------------------------------------------------------
(* generate_optimization_tips *)

LowScore == 50

HighScore == 80

TopMissing == 3

TipLow == "Your resume needs significant alignment with the job description."

TipClose == "You're close! focus on adding specific technical keywords."

TipGreat == "Great match! Focus on readability and formatting now."

TipVerbs == "Ensure you use 'Action Verbs' at the start of every bullet point."

TipQuantify == "Quantify your experience with numbers (e.g., 'Reduced latency by 20%')."

RECURSIVE Join(_, _)
\* sep.join(words)
Join(sep, words) ==
    IF words = <<>> THEN ""
    ELSE IF Len(words) = 1 THEN words[1]
    ELSE words[1] \o sep \o Join(sep, Tail(words))
\* mutant: words[:n-1]
SliceShort(words, n) == SubSeq(words, 1, IF Len(words) < n - 1 THEN Len(words) ELSE n - 1)

\* words[:n]
Slice(words, n) == SubSeq(words, 1, IF Len(words) < n THEN Len(words) ELSE n)

BandTip(sc) ==
    IF sc < LowScore THEN TipLow ELSE IF sc < HighScore THEN TipClose ELSE TipGreat

MissingTip(missing_keywords) ==
    "Try to weave in these top missing keywords: "
        \o Join(", ", Slice(missing_keywords, TopMissing)) \o "."

generate_optimization_tips(sc, missing_keywords) ==
    <<BandTip(sc)>>
        \o (IF missing_keywords # <<>> THEN <<MissingTip(missing_keywords)>> ELSE <<>>)
        \o <<TipVerbs, TipQuantify>>

----------------------------------------------------------------------------
(* analyze: the data it builds *)
\* mutant: the stop-word filter forgotten
WithStopWords(words, stop) == words

\* [w for w in words if w not in stop]
WithoutStopWords(words, stop) ==
    LET kept(w) == w \notin stop
    IN  SelectSeq(words, kept)

RECURSIVE CountsIn(_, _, _)
\* the <<word, count>> pairs of the words first seen in words[lo..hi], in order
CountsIn(words, lo, hi) ==
    IF lo > hi THEN <<>>
    ELSE IF lo = hi
    THEN (IF \A j \in 1..(lo - 1) : words[j] # words[lo]
          THEN <<<<words[lo], Cardinality({j \in 1..Len(words) : words[j] = words[lo]})>>>>
          ELSE <<>>)
    ELSE CountsIn(words, lo, (lo + hi) \div 2) \o CountsIn(words, (lo + hi) \div 2 + 1, hi)

\* collections.Counter(words): <<word, count>> pairs, a word's pair standing
\* where the word was first seen (a dict keeps insertion order)
Counter(words) == CountsIn(words, 1, Len(words))
\* mutant: among equal counts the pair seen last comes first
most_common_last(counter, n) ==
    LET before(i, j) == \/ counter[i][2] > counter[j][2]
                        \/ counter[i][2] = counter[j][2] /\ i > j
        rank(j)      == Cardinality({i \in 1..Len(counter) : before(i, j)}) + 1
        len          == IF Len(counter) < n THEN Len(counter) ELSE n
    IN  [k \in 1..len |-> counter[CHOOSE j \in 1..Len(counter) : rank(j) = k]]

\* Counter.most_common(n): sorted(items, key=count, reverse=True)[:n]; the sort
\* is stable, so among equal counts the pair seen first comes first
most_common(counter, n) ==
    LET before(i, j) == \/ counter[i][2] > counter[j][2]
                        \/ counter[i][2] = counter[j][2] /\ i < j
        rank(j)      == Cardinality({i \in 1..Len(counter) : before(i, j)}) + 1
        len          == IF Len(counter) < n THEN Len(counter) ELSE n
    IN  [k \in 1..len |-> counter[CHOOSE j \in 1..Len(counter) : rank(j) = k]]

MinSkills == 5

TopWords == 10

\* the set target_keywords of lines 140-150
TargetSet(words, counter, tech) ==
    LET skills == {w \in Range(words) : w \in tech}
        common == most_common(counter, TopWords)
    IN  IF Cardinality(skills) < MinSkills
        THEN skills \cup {common[i][1] : i \in 1..Len(common)}
        ELSE skills

RECURSIVE SetToSeq(_)
SetToSeq(S) ==
    IF S = {} THEN <<>>
    ELSE LET x == CHOOSE y \in S : TRUE
         IN  <<x>> \o SetToSeq(S \ {x})

Reversed(seq) == [i \in 1..Len(seq) |-> seq[Len(seq) + 1 - i]]

MaxPermute == 3

\* list(a_set): the order a set of strings is iterated in depends on the
\* process's string hash seed, so it is a choice.  Every order of a set of at
\* most MaxPermute members is enumerated; of a larger set, one order and its
\* reverse.
ListOrders(S) ==
    IF Cardinality(S) <= MaxPermute
    THEN {f \in [1..Cardinality(S) -> S] : \A i, j \in 1..Cardinality(S) : f[i] = f[j] => i = j}
    ELSE {SetToSeq(S), Reversed(SetToSeq(S))}
\* mutant: the substring test dropped
IsFoundAsToken(k, rset, raw_resume_lower) == k \in rset

\* k in resume_set or k in raw_resume_lower
IsFound(k, rset, raw_resume_lower) == k \in rset \/ IsSubstring(k, raw_resume_lower)

\* the list found the loop of lines 161-166 leaves
FoundOf(keywords, rset, raw_resume_lower) ==
    LET hit(k) == IsFound(k, rset, raw_resume_lower)
    IN  SelectSeq(keywords, hit)
\* mutant: a second if in the place of else, testing the token set alone
MissingOfTokens(keywords, rset, raw_resume_lower) ==
    LET miss(k) == k \notin rset
    IN  SelectSeq(keywords, miss)

\* the list missing it leaves
MissingOf(keywords, rset, raw_resume_lower) ==
    LET miss(k) == ~IsFound(k, rset, raw_resume_lower)
    IN  SelectSeq(keywords, miss)

\* sum(1 for k in found if k not in SOFT_SKILLS) and its complement
CountIn(keywords, S) == Cardinality({i \in 1..Len(keywords) : keywords[i] \in S})

CountNotIn(keywords, S) == Cardinality({i \in 1..Len(keywords) : keywords[i] \notin S})

\* data.get(key, '')
Get(data, key) == IF key \in DOMAIN data THEN data[key] ELSE ""

BadRequest == 400

Ok == 200

ErrorResponse == [status |-> BadRequest, body |-> [error |-> "Both fields are required"]]

NoResponse == [status |-> 0]

----------------------------------------------------------------------------
(* The requests the model sends: texts put together from a few pieces, a    *)
(* few whole texts, and the texts that list the first n one-word skills.    *)

NumThreads == 2

Threads == 1..NumThreads

MaxResumePieces == 2

MaxJdPieces == 2

ResumePieces == {"Python", "java", "script", " "}

JdPieces == {"Python and React, ", "Java/SQL aws: the team ", "docker data team "}

RECURSIVE Flatten(_)
Flatten(seq) == IF seq = <<>> THEN "" ELSE Head(seq) \o Flatten(Tail(seq))

Texts(pieces, n) == {Flatten(seq) : seq \in UNION {[1..k -> pieces] : k \in 0..n}}

WholeResumes ==
    {"Built React apps using Python. Led team communication.",
     "Jane Doe <jane.doe@example.com> (555) 123-4567: Managed 20 users, cut cost by 20%",
     "machine learning and data analysis in go, c++; misled 5clients for $5",
     "JavaScript developer, 555.123.456, j@x.c",
     "REACT/sql,aws",
     "alphabet lambda-beta THETA 5551234567 x_y@a-b.info 12  Percent"}

WholeJds ==
    {"We need a Python developer with React experience and strong communication skills, 5+ years.",
     "JavaScript/Java developer: java, rest APIs",
     "alpha beta gamma delta epsilon zeta eta theta iota kappa lambda mu beta lambda lambda",
     "and the for with you",
     "go c++ c# ci/cd",
     "machine learning and Go with c++, ci/cd for the team",
     "Machine Learning, Data Analysis, Design-Patterns and the data"}

ResumeTexts == Texts(ResumePieces, MaxResumePieces) \cup WholeResumes

JdTexts == Texts(JdPieces, MaxJdPieces) \cup WholeJds

\* the lexicon's skills that clean_text leaves whole, in some fixed order
OneWordSkills == SetToSeq({k \in TECH_SKILLS : clean_text(k) = <<k>>})

SkillsText(intro, n) == intro \o Join(" ", SubSeq(OneWordSkills, 1, n))

SkillPairs ==
    {<<SkillsText("Skills: ", f), SkillsText("Wanted: ", n)>> :
        <<f, n>> \in {<<g, m>> \in (0..Len(OneWordSkills)) \X (1..Len(OneWordSkills)) : g <= m}}

Body(r, j) == [resume_text |-> r, jd_text |-> j]

\* JSON bodies: both fields, or one of them absent
Bodies ==
    {Body(r, j) : <<r, j>> \in (ResumeTexts \X JdTexts) \cup SkillPairs}
        \cup {[resume_text |-> r] : r \in WholeResumes}
        \cup {[jd_text |-> j] : j \in WholeJds}

ConcurrentBodies ==
    {Body("Built React apps using Python. Led team communication.",
          "We need a Python developer with React experience and strong communication skills, 5+ years."),
     Body("JavaScript developer, 555.123.456, j@x.c", "JavaScript/Java developer: java, rest APIs"),
     Body("", "go c++ c# ci/cd")}

----------------------------------------------------------------------------
(* analyze: one action per step of the handler, for request thread t *)

Lexicon == [stop |-> COMMON_STOP_WORDS, tech |-> TECH_SKILLS, soft |-> SOFT_SKILLS]

InitThreads ==
    /\ lexicon = Lexicon
    /\ pc = [t \in Threads |-> "idle"]
    /\ resume_text = [t \in Threads |-> ""]
    /\ jd_text = [t \in Threads |-> ""]
    /\ resume_words = [t \in Threads |-> <<>>]
    /\ jd_words = [t \in Threads |-> <<>>]
    /\ resume_set = [t \in Threads |-> {}]
    /\ jd_counter = [t \in Threads |-> <<>>]
    /\ target_keywords = [t \in Threads |-> <<>>]
    /\ found = [t \in Threads |-> <<>>]
    /\ missing = [t \in Threads |-> <<>>]
    /\ score = [t \in Threads |-> 0]
    /\ format_checks = [t \in Threads |-> <<>>]
    /\ tips = [t \in Threads |-> <<>>]
    /\ response = [t \in Threads |-> NoResponse]

\* one request on its way
Init == InitThreads /\ pending \in {<<b>> : b \in Bodies}

\* as many requests as there are threads, served concurrently
InitConcurrent == InitThreads /\ pending \in [Threads -> ConcurrentBodies]

\* lines 124-126: the request reaches the handler, which reads the two fields
Receive(t) ==
    /\ pc[t] = "idle"
    /\ pending # <<>>
    /\ \A u \in Threads : u < t => pc[u] # "idle"
    /\ resume_text' = [resume_text EXCEPT ![t] = Get(Head(pending), "resume_text")]
    /\ jd_text' = [jd_text EXCEPT ![t] = Get(Head(pending), "jd_text")]
    /\ pending' = Tail(pending)
    /\ pc' = [pc EXCEPT ![t] = "validate"]
    /\ UNCHANGED <<lexicon, locals, response>>
\* mutant: and in the place of or
ValidateEither(t) ==
    /\ pc[t] = "validate"
    /\ IF resume_text[t] = "" /\ jd_text[t] = ""
       THEN /\ response' = [response EXCEPT ![t] = ErrorResponse]
            /\ pc' = [pc EXCEPT ![t] = "rejected"]
       ELSE /\ pc' = [pc EXCEPT ![t] = "tokenize"]
            /\ UNCHANGED response
    /\ UNCHANGED <<lexicon, pending, resume_text, jd_text, locals>>

\* lines 128-129
Validate(t) ==
    /\ pc[t] = "validate"
    /\ IF resume_text[t] = "" \/ jd_text[t] = ""
       THEN /\ response' = [response EXCEPT ![t] = ErrorResponse]
            /\ pc' = [pc EXCEPT ![t] = "rejected"]
       ELSE /\ pc' = [pc EXCEPT ![t] = "tokenize"]
            /\ UNCHANGED response
    /\ UNCHANGED <<lexicon, pending, resume_text, jd_text, locals>>

\* lines 132-136
Tokenize(t) ==
    /\ pc[t] = "tokenize"
    /\ resume_words' = [resume_words EXCEPT ![t] = clean_text(resume_text[t])]
    /\ jd_words' = [jd_words EXCEPT ![t] = clean_text(jd_text[t])]
    /\ resume_set' = [resume_set EXCEPT ![t] = Range(clean_text(resume_text[t]))]
    /\ jd_counter' = [jd_counter EXCEPT ![t] =
                         Counter(WithoutStopWords(clean_text(jd_text[t]), lexicon.stop))]
    /\ pc' = [pc EXCEPT ![t] = "targets"]
    /\ UNCHANGED <<lexicon, pending, resume_text, jd_text, target_keywords, found,
                   missing, score, format_checks, tips, response>>
\* mutant: the frequent words go into the module's TECH_SKILLS
\* (TECH_SKILLS.update(most_common)), not into the request's own set
IdentifyTargetsShared(t) ==
    /\ pc[t] = "targets"
    /\ LET skills == {w \in Range(jd_words[t]) : w \in lexicon.tech}
           common == most_common(jd_counter[t], TopWords)
       IN  /\ lexicon' = IF Cardinality(skills) < MinSkills
                         THEN [lexicon EXCEPT !.tech = @ \cup {common[i][1] : i \in 1..Len(common)}]
                         ELSE lexicon
           /\ \E order \in ListOrders(skills) :
                 target_keywords' = [target_keywords EXCEPT ![t] = order]
    /\ pc' = [pc EXCEPT ![t] = "match"]
    /\ UNCHANGED <<pending, resume_text, jd_text, resume_words, jd_words,
                   resume_set, jd_counter, found, missing, score, format_checks,
                   tips, response>>

\* lines 140-152
IdentifyTargets(t) ==
    /\ pc[t] = "targets"
    /\ \E order \in ListOrders(TargetSet(jd_words[t], jd_counter[t], lexicon.tech)) :
          target_keywords' = [target_keywords EXCEPT ![t] = order]
    /\ pc' = [pc EXCEPT ![t] = "match"]
    /\ UNCHANGED <<lexicon, pending, resume_text, jd_text, resume_words, jd_words,
                   resume_set, jd_counter, found, missing, score, format_checks,
                   tips, response>>

\* lines 155-166
MatchKeywords(t) ==
    /\ pc[t] = "match"
    /\ found' = [found EXCEPT ![t] =
                    FoundOf(target_keywords[t], resume_set[t], Lower(resume_text[t]))]
    /\ missing' = [missing EXCEPT ![t] =
                      MissingOf(target_keywords[t], resume_set[t], Lower(resume_text[t]))]
    /\ pc' = [pc EXCEPT ![t] = "score"]
    /\ UNCHANGED <<lexicon, pending, resume_text, jd_text, resume_words, jd_words,
                   resume_set, jd_counter, target_keywords, score, format_checks,
                   tips, response>>

\* lines 169-173
CalculateScore(t) ==
    /\ pc[t] = "score"
    /\ score' = [score EXCEPT ![t] = ScoreOf(Len(found[t]), Len(target_keywords[t]))]
    /\ pc' = [pc EXCEPT ![t] = "format"]
    /\ UNCHANGED <<lexicon, pending, resume_text, jd_text, resume_words, jd_words,
                   resume_set, jd_counter, target_keywords, found, missing,
                   format_checks, tips, response>>

\* line 176
FormatChecks(t) ==
    /\ pc[t] = "format"
    /\ format_checks' = [format_checks EXCEPT ![t] = check_formatting_rules(resume_text[t])]
    /\ pc' = [pc EXCEPT ![t] = "tips"]
    /\ UNCHANGED <<lexicon, pending, resume_text, jd_text, resume_words, jd_words,
                   resume_set, jd_counter, target_keywords, found, missing, score,
                   tips, response>>

\* line 179
OptimizationTips(t) ==
    /\ pc[t] = "tips"
    /\ tips' = [tips EXCEPT ![t] = generate_optimization_tips(score[t], missing[t])]
    /\ pc' = [pc EXCEPT ![t] = "respond"]
    /\ UNCHANGED <<lexicon, pending, resume_text, jd_text, resume_words, jd_words,
                   resume_set, jd_counter, target_keywords, found, missing, score,
                   format_checks, response>>

\* the dict of lines 182-190
ResponseBody(sc, fnd, mis, soft, checks, tps) ==
    [score |-> sc,
     found_keywords |-> fnd,
     missing_keywords |-> mis,
     hard_skills_count |-> CountNotIn(fnd, soft),
     soft_skills_count |-> CountIn(fnd, soft),
     format_checks |-> checks,
     tips |-> tps]

\* lines 182-192
Respond(t) ==
    /\ pc[t] = "respond"
    /\ response' = [response EXCEPT ![t] =
                       [status |-> Ok,
                        body |-> ResponseBody(score[t], found[t], missing[t], lexicon.soft,
                                              format_checks[t], tips[t])]]
    /\ pc' = [pc EXCEPT ![t] = "done"]
    /\ UNCHANGED <<lexicon, pending, resume_text, jd_text, locals>>

Next ==
    \E t \in Threads :
        \/ Receive(t)
        \/ Validate(t)
        \/ Tokenize(t)
        \/ IdentifyTargets(t)
        \/ MatchKeywords(t)
        \/ CalculateScore(t)
        \/ FormatChecks(t)
        \/ OptimizationTips(t)
        \/ Respond(t)

Spec == Init /\ [][Next]_vars

SpecConcurrent == InitConcurrent /\ [][Next]_vars

----------------------------------------------------------------------------
(* generate_optimization_tips called on its own, on any score and any list *)

MaxMissing == 4

ScoreInputs == -1..101

MissingInputs == UNION {[1..n -> {"aws", "docker", "sql"}] : n \in 0..MaxMissing}

InitTips ==
    /\ lexicon = Lexicon
    /\ pending = <<>>
    /\ pc = [t \in Threads |-> IF t = 1 THEN "call_tips" ELSE "idle"]
    /\ resume_text = [t \in Threads |-> ""]
    /\ jd_text = [t \in Threads |-> ""]
    /\ resume_words = [t \in Threads |-> <<>>]
    /\ jd_words = [t \in Threads |-> <<>>]
    /\ resume_set = [t \in Threads |-> {}]
    /\ jd_counter = [t \in Threads |-> <<>>]
    /\ target_keywords = [t \in Threads |-> <<>>]
    /\ found = [t \in Threads |-> <<>>]
    /\ \E sc \in ScoreInputs, mis \in MissingInputs :
          /\ score = [t \in Threads |-> sc]
          /\ missing = [t \in Threads |-> mis]
    /\ format_checks = [t \in Threads |-> <<>>]
    /\ tips = [t \in Threads |-> <<>>]
    /\ response = [t \in Threads |-> NoResponse]

CallTips(t) ==
    /\ pc[t] = "call_tips"
    /\ tips' = [tips EXCEPT ![t] = generate_optimization_tips(score[t], missing[t])]
    /\ pc' = [pc EXCEPT ![t] = "returned_tips"]
    /\ UNCHANGED <<lexicon, pending, resume_text, jd_text, resume_words, jd_words,
                   resume_set, jd_counter, target_keywords, found, missing, score,
                   format_checks, response>>

NextTips == \E t \in Threads : CallTips(t)

SpecTips == InitTips /\ [][NextTips]_vars

----------------------------------------------------------------------------
(* The properties *)

AfterTokenize == {"targets", "match", "score", "format", "tips", "respond", "done"}

AfterTargets == {"match", "score", "format", "tips", "respond", "done"}

AfterMatch == {"score", "format", "tips", "respond", "done"}

AfterScore == {"format", "tips", "respond", "done"}

AfterFormat == {"tips", "respond", "done"}

NoDuplicates(seq) == \A i, j \in 1..Len(seq) : seq[i] = seq[j] => i = j

\* C1: after the matching loop, found and missing partition the target
\* keywords: every target is in exactly one of the two lists, neither list
\* holds anything that is not a target, neither holds a duplicate, and
\* |found| + |missing| = |targets|.
C1_FoundMissingPartition ==
    \A t \in Threads : pc[t] \in AfterMatch =>
        LET targets == Range(target_keywords[t])
        IN  /\ Range(found[t]) \cup Range(missing[t]) = targets
            /\ Range(found[t]) \cap Range(missing[t]) = {}
            /\ NoDuplicates(found[t])
            /\ NoDuplicates(missing[t])
            /\ Len(found[t]) + Len(missing[t]) = Cardinality(targets)

\* C1's case: a keyword found only inside a longer word of the resume, beside
\* found and missing keywords
C1_Witness ==
    \E t \in Threads :
        /\ pc[t] \in AfterMatch
        /\ missing[t] # <<>>
        /\ \E k \in Range(found[t]) : k \notin resume_set[t]

\* C2: the score is 100 * |found| / |targets| truncated toward zero, 0 when
\* there is no target, and so an integer in 0..100.
C2_ScoreTruncates ==
    \A t \in Threads : pc[t] \in AfterScore =>
        LET n == Cardinality(Range(target_keywords[t]))
        IN  /\ score[t] = IF n = 0 THEN 0 ELSE (100 * Len(found[t])) \div n
            /\ score[t] \in 0..100

\* C2's case: a quotient that is no whole number and whose fraction is a half
\* or more, over a target set of thirty keywords or more
C2_Witness ==
    \E t \in Threads :
        /\ pc[t] \in AfterScore
        /\ Len(target_keywords[t]) >= 30
        /\ 2 * ((100 * Len(found[t])) % Len(target_keywords[t])) >= Len(target_keywords[t])

\* how often a word stands in a token sequence, and where it stands first
Frequency(words, w) == Cardinality({i \in 1..Len(words) : words[i] = w})

FirstSeen(words, w) == CHOOSE i \in 1..Len(words) : words[i] = w /\ \A j \in 1..(i - 1) : words[j] # w

Outranks(words, v, w) ==
    \/ Frequency(words, v) > Frequency(words, w)
    \/ Frequency(words, v) = Frequency(words, w) /\ FirstSeen(words, v) < FirstSeen(words, w)

\* the n most frequent distinct tokens that are no stop words, ties going to
\* the token that occurs first
MostFrequent(words, n) ==
    LET eligible == {w \in Range(words) : w \notin COMMON_STOP_WORDS}
    IN  {w \in eligible : Cardinality({v \in eligible : Outranks(words, v, w)}) < n}

ExpectedTargets(words) ==
    LET S == {w \in Range(words) : w \in TECH_SKILLS}
    IN  IF Cardinality(S) >= 5 THEN S ELSE S \cup MostFrequent(words, 10)

\* C3: the target keyword set is the set S of JD tokens in TECH_SKILLS when
\* |S| >= 5, and otherwise S with the 10 most frequent distinct JD tokens that
\* are no stop words (all if there are fewer), ties broken by first occurrence.
C3_TargetSelection ==
    \A t \in Threads : pc[t] \in AfterTargets =>
        Range(target_keywords[t]) = ExpectedTargets(jd_words[t])

\* C3's case: fewer than 5 skills and more than 10 candidate tokens, with a
\* tie in frequency between a token taken and a token left out
C3_Witness ==
    \E t \in Threads :
        /\ pc[t] \in AfterTargets
        /\ Cardinality({w \in Range(jd_words[t]) : w \in TECH_SKILLS}) < 5
        /\ \E v \in Range(target_keywords[t]) :
              \E w \in Range(jd_words[t]) \ (Range(target_keywords[t]) \cup COMMON_STOP_WORDS) :
                 Frequency(jd_words[t], v) = Frequency(jd_words[t], w)

\* C4: a target keyword is in found iff it is a resume token or a contiguous
\* substring of the lower-cased raw resume text; otherwise it is in missing.
C4_FoundIffTokenOrSubstring ==
    \A t \in Threads : pc[t] \in AfterMatch =>
        LET tokens == Range(clean_text(resume_text[t]))
            raw    == Lower(resume_text[t])
        IN  \A k \in Range(target_keywords[t]) :
                LET present == k \in tokens \/ IsSubstring(k, raw)
                IN  /\ k \in Range(found[t]) <=> present
                    /\ k \in Range(missing[t]) <=> ~present

\* C4's case: one keyword found as a token, one found only inside a longer
\* word, one missing
C4_Witness ==
    \E t \in Threads :
        /\ pc[t] \in AfterMatch
        /\ missing[t] # <<>>
        /\ LET tokens == Range(clean_text(resume_text[t]))
               raw    == Lower(resume_text[t])
           IN  /\ \E k \in Range(found[t]) : k \in tokens
               /\ \E k \in Range(found[t]) : k \notin tokens /\ IsSubstring(k, raw)

\* the first one, two or three entries of a non-empty list, joined by ", "
FirstThreeNamed(list) ==
    IF Len(list) = 1 THEN list[1]
    ELSE IF Len(list) = 2 THEN list[1] \o ", " \o list[2]
    ELSE list[1] \o ", " \o list[2] \o ", " \o list[3]

\* C5: generate_optimization_tips returns one band tip (low iff score < 50,
\* close iff 50 <= score < 80, great iff score >= 80), then, iff missing is
\* not empty, one tip naming its first min(3, |missing|) entries joined by
\* ", ", then the two fixed tips: 3 tips when missing is empty, 4 otherwise.
C5_TipsShape ==
    \A t \in Threads : pc[t] = "returned_tips" =>
        LET n == Len(tips[t])
        IN  /\ n = IF missing[t] = <<>> THEN 3 ELSE 4
            /\ tips[t][1] \in {TipLow, TipClose, TipGreat}
            /\ tips[t][1] = TipLow <=> score[t] < 50
            /\ tips[t][1] = TipClose <=> (50 <= score[t] /\ score[t] < 80)
            /\ tips[t][1] = TipGreat <=> score[t] >= 80
            /\ missing[t] # <<>> =>
                  tips[t][2] = "Try to weave in these top missing keywords: "
                                  \o FirstThreeNamed(missing[t]) \o "."
            /\ tips[t][n - 1] = TipVerbs
            /\ tips[t][n] = TipQuantify

\* C5's case: a score on the edge of a band and more than three missing
\* keywords
C5_Witness ==
    \E t \in Threads :
        /\ pc[t] = "returned_tips"
        /\ score[t] = 50
        /\ Len(missing[t]) > 3
        /\ Len(tips[t]) = 4

\* C6: check_formatting_rules returns six checks in the order Contact Email,
\* Phone Number, Action Verbs, Metrics/Numbers, Consistent Formatting, No
\* Typos; the fifth and sixth pass whatever the text; and the list is the
\* function's value on the resume text alone.
C6_SixChecksInOrder ==
    \A t \in Threads : pc[t] \in AfterFormat =>
        /\ Len(format_checks[t]) = 6
        /\ [i \in 1..6 |-> format_checks[t][i].label] =
              <<"Contact Email", "Phone Number", "Action Verbs", "Metrics/Numbers",
                "Consistent Formatting", "No Typos">>
        /\ format_checks[t][5].pass = TRUE
        /\ format_checks[t][6].pass = TRUE
        /\ format_checks[t] = check_formatting_rules(resume_text[t])

\* C6's case: a resume that fails the four computed checks, and still passes
\* the fifth and the sixth
C6_Witness ==
    \E t \in Threads :
        /\ pc[t] \in AfterFormat
        /\ \A i \in 1..4 : ~format_checks[t][i].pass
        /\ format_checks[t][5].pass /\ format_checks[t][6].pass

ResultFields ==
    {"score", "found_keywords", "missing_keywords", "hard_skills_count",
     "soft_skills_count", "format_checks", "tips"}

RunAlone(resume, jd) ==
    LET words   == clean_text(jd)
        targets == TargetSet(words, Counter(WithoutStopWords(words, COMMON_STOP_WORDS)),
                             TECH_SKILLS)
        hits    == {k \in targets : IsFound(k, Range(clean_text(resume)), Lower(resume))}
    IN  [score |-> ScoreOf(Cardinality(hits), Cardinality(targets)),
         found |-> hits,
         missing |-> targets \ hits,
         format_checks |-> check_formatting_rules(resume),
         hard_skills_count |-> Cardinality(hits \ SOFT_SKILLS),
         soft_skills_count |-> Cardinality(hits \cap SOFT_SKILLS)]

Answered(t) ==
    [score |-> response[t].body.score,
     found |-> Range(response[t].body.found_keywords),
     missing |-> Range(response[t].body.missing_keywords),
     format_checks |-> response[t].body.format_checks,
     hard_skills_count |-> response[t].body.hard_skills_count,
     soft_skills_count |-> response[t].body.soft_skills_count]

\* C8: however concurrent invocations interleave, no step writes the lexicon
\* sets, and every invocation answers with the score, found set, missing set,
\* format checks and skill counts it yields when run alone on its two texts.
C8_Independent ==
    /\ [][lexicon' = lexicon]_vars
    /\ [](lexicon = Lexicon)
    /\ [](\A t \in Threads : pc[t] = "done" =>
             Answered(t) = RunAlone(resume_text[t], jd_text[t]))

\* C8's case: two requests with different texts in flight at once, the later
\* one answered while the earlier one is still being matched
C8_Witness ==
    \E t, u \in Threads :
        /\ t < u
        /\ pc[t] = "match"
        /\ pc[u] = "done"
        /\ jd_text[t] # jd_text[u]

Unreachable ==
    {"machine learning", "data analysis", "design patterns", "ci/cd", "c++", "c#", "go"}

C10_SubstringSubsumesToken ==
    \A t \in Threads :
        LET raw    == Lower(resume_text[t])
            in(k)  == IsSubstring(k, raw)
            out(k) == ~IsSubstring(k, raw)
        IN  /\ pc[t] \in AfterTokenize =>
                  \A i \in 1..Len(resume_words[t]) : in(resume_words[t][i])
            /\ pc[t] \in AfterMatch =>
                  /\ found[t] = SelectSeq(target_keywords[t], in)
                  /\ missing[t] = SelectSeq(target_keywords[t], out)

\* C10's case: a resume with upper-case letters and punctuation, one of whose
\* tokens is a target keyword that is found
C10_Witness ==
    \E t \in Threads :
        /\ pc[t] \in AfterMatch
        /\ resume_text[t] # Lower(resume_text[t])
        /\ StripSpecial(Lower(resume_text[t])) # Lower(resume_text[t])
        /\ \E k \in Range(found[t]) : k \in resume_set[t]

====
